---- MODULE Spec2Model ----
(***************************************************************************)
(* State-machine model of server.js: an Express application with           *)
(* express-session (default MemoryStore), bcryptjs and three Sequelize     *)
(* models (User, Project, Task).                                           *)
(*                                                                         *)
(* Every request is an asynchronous task.  A request is suspended at each  *)
(* `await`; the code between two awaits runs without interruption.  One    *)
(* action of the model is: the completion of the awaited call, together    *)
(* with the synchronous code that follows it up to the next await or to    *)
(* the response.                                                           *)
(***************************************************************************)
EXTENDS Integers, Sequences, FiniteSets, TLC

\* ------------------------------------------------------------ bounds
MaxReq    == 2      \* requests in flight at the same time
MaxUsers  == 2      \* user rows ever created
MaxRows   == 2      \* project rows / task rows ever created
MaxTokens == 1      \* session ids ever issued

Req    == 1..MaxReq
Tokens == 1..MaxTokens

\* ------------------------------------------------------------ values
\* `undefined`: a body field that was not sent.
Undefined == "undefined"
\* `null`: what findOne / findByPk return when there is no row.
Null == [null |-> TRUE]

Emails    == {"a@x.com", "b@x.com"}
Passwords == {"p", "q"}

\* const saltRounds = 10
saltRounds == 10

\* bcrypt.hash(password, saltRounds): a one-way digest, never the password.
Hash(password) == [alg |-> "bcrypt", cost |-> saltRounds, digest |-> <<"H", password>>]
\* bcrypt.hash / bcrypt.compare reject (throw) when the password is no string.
BcryptRejects(password) == password = Undefined
\* bcrypt.compare(password, hash)
Compare(password, hash) == hash = Hash(password)

\* req.body of POST /api/register
RegisterBodies ==
    { [username |-> "ann", email |-> "a@x.com", password |-> "p"],
      [username |-> "bob", email |-> "b@x.com", password |-> "q"],
      [username |-> "ann", email |-> "a@x.com", password |-> Undefined] }
\* req.body of POST /api/login
LoginBodies == [email : Emails, password : Passwords \cup {Undefined}]
\* req.body of POST and PUT /api/projects; userId 0 stands for `not sent`.
ProjectBodies ==
    { [name |-> "n1", description |-> "d1", status |-> "open", dueDate |-> "mon", userId |-> 0],
      [name |-> "n2", description |-> "d2", status |-> "done", dueDate |-> "tue", userId |-> 2] }
\* req.body of POST and PUT /api/tasks
TaskBodies ==
    { [title |-> "t1", description |-> "d1", completed |-> FALSE, priority |-> "low",
       dueDate |-> "mon", projectId |-> 1],
      [title |-> "t2", description |-> "d2", completed |-> TRUE, priority |-> "high",
       dueDate |-> "tue", projectId |-> 2] }
NoBody == [none |-> TRUE]

\* A session object without identity fields (they read as undefined, which
\* is falsy; the user id 0 and the empty strings stand for undefined).
EmptySession == [userId |-> 0, username |-> "", userEmail |-> ""]
\* req.user before requireAuth has set it.
NoUser == [id |-> 0, username |-> "", email |-> ""]

\* ------------------------------------------------------------ state
VARIABLES
    users,        \* the User table: a sequence of rows, in insertion order
    projects,     \* the Project table
    tasks,        \* the Task table
    seq,          \* the auto-increment counter of each table
    uniqueEmail,  \* whether the User table declares a unique index on email
    store,        \* the session store: session id -> session data
    issued,       \* the session ids handed to clients as cookies
    reqs          \* the requests in flight, and their responses

vars == <<users, projects, tasks, seq, uniqueEmail, store, issued, reqs>>

\* ------------------------------------------------------------ persistence
Ids(rows) == { rows[i].id : i \in 1..Len(rows) }
\* Model.findOne({ where: { email } }): the first matching row, or null.
findOne(rows, email) ==
    IF \E i \in 1..Len(rows) : rows[i].email = email
    THEN rows[CHOOSE i \in 1..Len(rows) :
                /\ rows[i].email = email
                /\ \A j \in 1..(i - 1) : rows[j].email # email]
    ELSE Null
\* Model.findByPk(id)
findByPk(rows, id) ==
    IF id \in Ids(rows) THEN rows[CHOOSE i \in 1..Len(rows) : rows[i].id = id] ELSE Null
\* Model.findAll()
findAll(rows) == rows
\* Model.create(values): the table with the new row appended.
create(rows, row) == Append(rows, row)
\* Model.update(values, { where: { id } }): [affected-row count, new table].
update(rows, id, row) ==
    <<Cardinality({ i \in 1..Len(rows) : rows[i].id = id }),
      [i \in 1..Len(rows) |-> IF rows[i].id = id THEN row ELSE rows[i]]>>
\* Model.destroy({ where: { id } }): [deleted-row count, new table].
destroy(rows, id) ==
    <<Cardinality({ i \in 1..Len(rows) : rows[i].id = id }),
      SelectSeq(rows, LAMBDA row : row.id # id)>>

\* ------------------------------------------------------------ requests
IdleReq ==
    [ pc      |-> "idle",        \* where the handler is suspended
      kind    |-> "none",        \* the route
      sid     |-> 0,             \* req.sessionID (0: a new id, not stored yet)
      session |-> EmptySession,  \* req.session
      user    |-> NoUser,        \* req.user
      id      |-> 0,             \* req.params.id
      body    |-> NoBody,        \* req.body
      found   |-> Null,          \* const user = await User.findOne(...)
      hashed  |-> Null,          \* const hashedPassword
      count   |-> -1,            \* updatedRowsCount / deletedRowsCount
      status  |-> 0,             \* the response: status code
      json    |-> Null,          \*               and body
      wrote   |-> FALSE,         \* history: a write of this request took effect
      fault   |-> FALSE ]        \* history: a collaborator call of it failed

\* res.status(status).json(json)
Respond(q, status, json) == [q EXCEPT !.pc = "done", !.status = status, !.json = json]
Err(msg) == [error |-> msg]
\* catch (error) { res.status(500).json({ error: msg }) }
Catch(q, msg) == Respond(q, 500, Err(msg))
\* the same, when the awaited collaborator call itself failed
Fault(q, msg) == [Catch(q, msg) EXCEPT !.fault = TRUE]

At(r, kind, pc) == reqs[r].kind = kind /\ reqs[r].pc = pc
Pending(kinds) == Cardinality({ r \in Req : reqs[r].kind \in kinds /\ reqs[r].pc # "done" })

\* ------------------------------------------------------------ session
\* express-session, on an incoming request: the cookie's session when the
\* store holds it, a newly generated session otherwise.
LoadSession(q, cookie) ==
    IF cookie \in DOMAIN store
    THEN [q EXCEPT !.sid = cookie, !.session = store[cookie]]
    ELSE [q EXCEPT !.sid = 0, !.session = EmptySession]

\* Mutant of requireAuthPasses: the gate asks only whether a session object
\* is there (express-session always provides one).
requireAuthPasses_AnySession(session) == session = session
\* requireAuth: if (req.session && req.session.userId)
requireAuthPasses(session) == session.userId # 0
\* requireAuth: req.user = { id, username, email }
requireAuthUser(session) ==
    [id |-> session.userId, username |-> session.username, email |-> session.userEmail]
\* requireAuth as a whole: either next() or the 401 response.
requireAuth(q, next) ==
    IF requireAuthPasses(q.session)
    THEN [q EXCEPT !.user = requireAuthUser(q.session), !.pc = next]
    ELSE Respond(q, 401, Err("Authentication required. Please log in."))

\* ------------------------------------------------------------ Init
Init ==
    /\ users = <<>>
    /\ projects = <<>>
    /\ tasks = <<>>
    /\ seq = [User |-> 1, Project |-> 1, Task |-> 1]
    /\ uniqueEmail \in BOOLEAN
    /\ store = [t \in {} |-> EmptySession]
    /\ issued = {}
    /\ reqs = [r \in Req |-> IdleReq]

DbUnchanged == UNCHANGED <<users, projects, tasks, seq, uniqueEmail>>
SessUnchanged == UNCHANGED <<store, issued>>

\* A request arrives: the session middleware loads req.session, and the
\* handler runs up to its first await.
Receive(r, kind, cookie, id, body, pc) ==
    /\ reqs[r].pc = "idle"
    /\ cookie \in {0} \cup issued
    /\ reqs' = [reqs EXCEPT ![r] =
                  LoadSession([IdleReq EXCEPT !.kind = kind, !.id = id,
                                              !.body = body, !.pc = pc], cookie)]

\* The same for a route behind requireAuth.
ReceiveGated(r, kind, cookie, id, body, pc) ==
    /\ reqs[r].pc = "idle"
    /\ cookie \in {0} \cup issued
    /\ reqs' = [reqs EXCEPT ![r] =
                  requireAuth(LoadSession([IdleReq EXCEPT !.kind = kind, !.id = id,
                                                          !.body = body], cookie), pc)]

\* The response has been sent; the request object is released.
Finish(r) ==
    /\ reqs[r].pc = "done"
    /\ reqs' = [reqs EXCEPT ![r] = IdleReq]
    /\ DbUnchanged /\ SessUnchanged

\* ------------------------------------------------------------ POST /api/register
ReceiveRegister(r) ==
    /\ seq.User + Pending({"POST /api/register"}) <= MaxUsers
    /\ \E cookie \in {0} \cup issued, body \in RegisterBodies :
          Receive(r, "POST /api/register", cookie, 0, body, "findOne")
    /\ DbUnchanged /\ SessUnchanged

\* const existingUser = await User.findOne({ where: { email } });
\* if (existingUser) return res.status(400)...
RegisterFindOne(r) ==
    /\ At(r, "POST /api/register", "findOne")
    /\ \E ok \in BOOLEAN :
         LET q == reqs[r]
             existingUser == findOne(users, q.body.email)
         IN reqs' = [reqs EXCEPT ![r] =
              IF ~ok THEN Fault(q, "Failed to register user")
              ELSE IF existingUser # Null
                   THEN Respond(q, 400, Err("User with this email already exists"))
                   ELSE [q EXCEPT !.pc = "hash"]]
    /\ DbUnchanged /\ SessUnchanged

\* const hashedPassword = await bcrypt.hash(password, saltRounds);
RegisterHash(r) ==
    /\ At(r, "POST /api/register", "hash")
    /\ LET q == reqs[r]
       IN reqs' = [reqs EXCEPT ![r] =
            IF BcryptRejects(q.body.password)
            THEN Catch(q, "Failed to register user")
            ELSE [q EXCEPT !.hashed = Hash(q.body.password), !.pc = "create"]]
    /\ DbUnchanged /\ SessUnchanged

\* The values of User.create({ username, email, password: hashedPassword })
NewUserRow(q, id) ==
    [id |-> id, username |-> q.body.username, email |-> q.body.email, password |-> q.hashed]
\* The 201 body: { message, user: { id, username, email } }
RegisterOk(newUser) ==
    [message |-> "User registered successfully",
     user |-> [id |-> newUser.id, username |-> newUser.username, email |-> newUser.email]]

\* const newUser = await User.create(...); res.status(201).json(...)
RegisterCreate(r) ==
    /\ At(r, "POST /api/register", "create")
    /\ \E ok \in BOOLEAN :
         LET q == reqs[r]
             newUser == NewUserRow(q, seq.User)
             \* a unique index on email makes the insert of a second row fail
             rejected == uniqueEmail /\ findOne(users, q.body.email) # Null
         IN IF ~ok \/ rejected
            THEN /\ reqs' = [reqs EXCEPT ![r] =
                      IF ~ok THEN Fault(q, "Failed to register user")
                             ELSE Catch(q, "Failed to register user")]
                 /\ UNCHANGED <<users, seq>>
            ELSE /\ users' = create(users, newUser)
                 /\ seq' = [seq EXCEPT !.User = @ + 1]
                 /\ reqs' = [reqs EXCEPT ![r] =
                      [Respond(q, 201, RegisterOk(newUser)) EXCEPT !.wrote = TRUE]]
    /\ UNCHANGED <<projects, tasks, uniqueEmail>> /\ SessUnchanged

\* ------------------------------------------------------------ POST /api/login
\* A login on a request without a stored session needs a new session id.
FreshLogins ==
    Cardinality({ r \in Req : reqs[r].kind = "POST /api/login" /\ reqs[r].pc # "done"
                               /\ reqs[r].sid = 0 })

ReceiveLogin(r) ==
    /\ \E cookie \in {0} \cup issued, body \in LoginBodies :
          /\ cookie \in DOMAIN store \/ Cardinality(issued) + FreshLogins < MaxTokens
          /\ Receive(r, "POST /api/login", cookie, 0, body, "findOne")
    /\ DbUnchanged /\ SessUnchanged

\* Mutant of LoginMismatch: the wrong-password answer names its cause.
LoginMismatch_Telling == Err("Invalid password")
\* if (!user) return res.status(401).json(...)
LoginAbsent == Err("Invalid email or password")
\* if (!isPasswordValid) return res.status(401).json(...)
LoginMismatch == Err("Invalid email or password")

\* const user = await User.findOne({ where: { email } });
\* if (!user) return res.status(401)...
LoginFindOne(r) ==
    /\ At(r, "POST /api/login", "findOne")
    /\ \E ok \in BOOLEAN :
         LET q == reqs[r]
             user == findOne(users, q.body.email)
         IN reqs' = [reqs EXCEPT ![r] =
              IF ~ok THEN Fault(q, "Failed to login")
              ELSE IF user = Null
                   THEN Respond(q, 401, LoginAbsent)
                   ELSE [q EXCEPT !.found = user, !.pc = "compare"]]
    /\ DbUnchanged /\ SessUnchanged

\* Mutant of LoginSessionWrite: only the user id is written, the other two
\* fields keep what the session held.
LoginSessionWrite_IdOnly(session, user) == [session EXCEPT !.userId = user.id]
\* req.session.userId = user.id; .username = user.username; .userEmail = user.email
LoginSessionWrite(session, user) ==
    [session EXCEPT !.userId = user.id, !.username = user.username,
                    !.userEmail = user.email]
\* The 200 body: { message, user: { id, username, email } }
LoginOk(user) ==
    [message |-> "Login successful",
     user |-> [id |-> user.id, username |-> user.username, email |-> user.email]]

\* express-session at the end of a response: a session that was changed by
\* the handler is written to the store under the request's session id (a
\* new id for a new session); an unchanged one is only touched.
SaveSession(sid, loaded, session) ==
    IF sid = 0
    THEN LET t == CHOOSE t \in Tokens \ issued : \A u \in Tokens \ issued : t <= u
         IN <<t, [u \in DOMAIN store \cup {t} |-> IF u = t THEN session ELSE store[u]]>>
    ELSE IF session # loaded
         THEN <<sid, [u \in DOMAIN store \cup {sid} |-> IF u = sid THEN session ELSE store[u]]>>
         ELSE <<sid, store>>

\* const isPasswordValid = await bcrypt.compare(password, user.password);
\* if (!isPasswordValid) return res.status(401)...; session fields; res.status(200)
LoginCompare(r) ==
    /\ At(r, "POST /api/login", "compare")
    /\ LET q == reqs[r]
           user == q.found
           isPasswordValid == Compare(q.body.password, user.password)
           session == LoginSessionWrite(q.session, user)
           saved == SaveSession(q.sid, q.session, session)
       IN IF BcryptRejects(q.body.password) \/ ~isPasswordValid
          THEN /\ reqs' = [reqs EXCEPT ![r] =
                    IF BcryptRejects(q.body.password)
                    THEN Catch(q, "Failed to login")
                    ELSE Respond(q, 401, LoginMismatch)]
               /\ SessUnchanged
          ELSE /\ store' = saved[2]
               /\ issued' = issued \cup {saved[1]}
               /\ reqs' = [reqs EXCEPT ![r] =
                    [Respond(q, 200, LoginOk(user))
                       EXCEPT !.session = session, !.sid = saved[1], !.wrote = TRUE]]
    /\ DbUnchanged

\* ------------------------------------------------------------ POST /api/logout
ReceiveLogout(r) ==
    /\ \E cookie \in {0} \cup issued :
          Receive(r, "POST /api/logout", cookie, 0, NoBody, "destroy")
    /\ DbUnchanged /\ SessUnchanged

\* req.session.destroy((err) => ...): the store forgets the session id.
LogoutDestroy(r) ==
    /\ At(r, "POST /api/logout", "destroy")
    /\ \E ok \in BOOLEAN :
         LET q == reqs[r]
         IN IF ~ok
            THEN /\ reqs' = [reqs EXCEPT ![r] = Fault(q, "Failed to logout")]
                 /\ UNCHANGED store
            ELSE /\ store' = [u \in DOMAIN store \ {q.sid} |-> store[u]]
                 /\ reqs' = [reqs EXCEPT ![r] =
                      [Respond(q, 200, [message |-> "Logout successful"])
                         EXCEPT !.session = EmptySession, !.wrote = q.sid \in DOMAIN store]]
    /\ UNCHANGED issued /\ DbUnchanged

\* cookie: { maxAge: 24 * 60 * 60 * 1000 }: the store drops an expired session.
Expire(t) ==
    /\ t \in DOMAIN store
    /\ store' = [u \in DOMAIN store \ {t} |-> store[u]]
    /\ UNCHANGED <<issued, reqs>> /\ DbUnchanged

\* ------------------------------------------------------------ /api/projects
\* GET /api/projects (requireAuth)
ReceiveGetProjects(r) ==
    /\ \E cookie \in {0} \cup issued :
          ReceiveGated(r, "GET /api/projects", cookie, 0, NoBody, "findAll")
    /\ DbUnchanged /\ SessUnchanged

\* const projects = await Project.findAll(); res.json(projects);
GetProjects(r) ==
    /\ At(r, "GET /api/projects", "findAll")
    /\ \E ok \in BOOLEAN :
         LET q == reqs[r]
         IN reqs' = [reqs EXCEPT ![r] =
              IF ~ok THEN Fault(q, "Failed to fetch projects")
                     ELSE Respond(q, 200, findAll(projects))]
    /\ DbUnchanged /\ SessUnchanged

\* POST /api/projects (requireAuth)
ReceivePostProjects(r) ==
    /\ seq.Project + Pending({"POST /api/projects"}) <= MaxRows
    /\ \E cookie \in {0} \cup issued, body \in ProjectBodies :
          ReceiveGated(r, "POST /api/projects", cookie, 0, body, "create")
    /\ DbUnchanged /\ SessUnchanged

\* Mutant of NewProjectRow: the whole body is passed on, so an owner sent in
\* the body wins over the session's.
NewProjectRow_FromBody(q, id) ==
    [id |-> id, name |-> q.body.name, description |-> q.body.description,
     status |-> q.body.status, dueDate |-> q.body.dueDate,
     userId |-> IF q.body.userId # 0 THEN q.body.userId ELSE q.user.id]
\* The values of Project.create({ name, description, status, dueDate,
\* userId: req.user.id })
NewProjectRow(q, id) ==
    [id |-> id, name |-> q.body.name, description |-> q.body.description,
     status |-> q.body.status, dueDate |-> q.body.dueDate, userId |-> q.user.id]

\* const newProject = await Project.create(...); res.status(201).json(newProject);
PostProjects(r) ==
    /\ At(r, "POST /api/projects", "create")
    /\ \E ok \in BOOLEAN :
         LET q == reqs[r]
             newProject == NewProjectRow(q, seq.Project)
         IN IF ~ok
            THEN /\ reqs' = [reqs EXCEPT ![r] = Fault(q, "Failed to create project")]
                 /\ UNCHANGED <<projects, seq>>
            ELSE /\ projects' = create(projects, newProject)
                 /\ seq' = [seq EXCEPT !.Project = @ + 1]
                 /\ reqs' = [reqs EXCEPT ![r] =
                      [Respond(q, 201, newProject) EXCEPT !.wrote = TRUE]]
    /\ UNCHANGED <<users, tasks, uniqueEmail>> /\ SessUnchanged

\* GET /api/projects/:id
ReceiveGetProject(r) ==
    /\ \E id \in 1..MaxRows :
          Receive(r, "GET /api/projects/:id", 0, id, NoBody, "findByPk")
    /\ DbUnchanged /\ SessUnchanged

\* const project = await Project.findByPk(req.params.id); if (!project) 404
GetProject(r) ==
    /\ At(r, "GET /api/projects/:id", "findByPk")
    /\ \E ok \in BOOLEAN :
         LET q == reqs[r]
             project == findByPk(projects, q.id)
         IN reqs' = [reqs EXCEPT ![r] =
              IF ~ok THEN Fault(q, "Failed to fetch project")
              ELSE IF project = Null THEN Respond(q, 404, Err("Project not found"))
                   ELSE Respond(q, 200, project)]
    /\ DbUnchanged /\ SessUnchanged

\* PUT /api/projects/:id
ReceivePutProject(r) ==
    /\ \E id \in 1..MaxRows, body \in ProjectBodies :
          Receive(r, "PUT /api/projects/:id", 0, id, body, "update")
    /\ DbUnchanged /\ SessUnchanged

\* The values of Project.update({ name, description, status, dueDate }, ...)
\* applied to a row.
UpdatedProjectRow(row, body) ==
    [row EXCEPT !.name = body.name, !.description = body.description,
                !.status = body.status, !.dueDate = body.dueDate]
\* Mutant of PutNotFound: the test is for a negative count, which never is.
PutNotFound_Never(updatedRowsCount) == updatedRowsCount < 0
\* if (updatedRowsCount === 0)
PutNotFound(updatedRowsCount) == updatedRowsCount = 0

\* const [updatedRowsCount] = await Project.update(...); 404 when it is 0
PutProjectUpdate(r) ==
    /\ At(r, "PUT /api/projects/:id", "update")
    /\ \E ok \in BOOLEAN :
         LET q == reqs[r]
             old == findByPk(projects, q.id)
             res == update(projects, q.id,
                           IF old = Null THEN Null ELSE UpdatedProjectRow(old, q.body))
         IN IF ~ok
            THEN /\ reqs' = [reqs EXCEPT ![r] = Fault(q, "Failed to update project")]
                 /\ UNCHANGED projects
            ELSE /\ projects' = res[2]
                 /\ reqs' = [reqs EXCEPT ![r] =
                      IF PutNotFound(res[1])
                      THEN [Respond(q, 404, Err("Project not found")) EXCEPT !.count = res[1]]
                      ELSE [q EXCEPT !.count = res[1], !.pc = "findByPk",
                                     !.wrote = res[1] > 0]]
    /\ UNCHANGED <<users, tasks, seq, uniqueEmail>> /\ SessUnchanged

\* const updatedProject = await Project.findByPk(req.params.id); res.json(...)
PutProjectFindByPk(r) ==
    /\ At(r, "PUT /api/projects/:id", "findByPk")
    /\ \E ok \in BOOLEAN :
         LET q == reqs[r]
             updatedProject == findByPk(projects, q.id)
         IN reqs' = [reqs EXCEPT ![r] =
              IF ~ok THEN Fault(q, "Failed to update project")
                     ELSE Respond(q, 200, updatedProject)]
    /\ DbUnchanged /\ SessUnchanged

\* DELETE /api/projects/:id
ReceiveDeleteProject(r) ==
    /\ \E id \in 1..MaxRows :
          Receive(r, "DELETE /api/projects/:id", 0, id, NoBody, "destroy")
    /\ DbUnchanged /\ SessUnchanged

\* Mutant of DeleteNotFound: the count is not looked at.
DeleteNotFound_Never(deletedRowsCount) == deletedRowsCount < 0
\* if (deletedRowsCount === 0)
DeleteNotFound(deletedRowsCount) == deletedRowsCount = 0

\* const deletedRowsCount = await Project.destroy(...); 404 when it is 0
DeleteProject(r) ==
    /\ At(r, "DELETE /api/projects/:id", "destroy")
    /\ \E ok \in BOOLEAN :
         LET q == reqs[r]
             res == destroy(projects, q.id)
         IN IF ~ok
            THEN /\ reqs' = [reqs EXCEPT ![r] = Fault(q, "Failed to delete project")]
                 /\ UNCHANGED projects
            ELSE /\ projects' = res[2]
                 /\ reqs' = [reqs EXCEPT ![r] =
                      [(IF DeleteNotFound(res[1])
                        THEN Respond(q, 404, Err("Project not found"))
                        ELSE Respond(q, 200, [message |-> "Project deleted successfully"]))
                       EXCEPT !.count = res[1], !.wrote = res[1] > 0]]
    /\ UNCHANGED <<users, tasks, seq, uniqueEmail>> /\ SessUnchanged

\* ------------------------------------------------------------ /api/tasks
\* GET /api/tasks
ReceiveGetTasks(r) ==
    /\ Receive(r, "GET /api/tasks", 0, 0, NoBody, "findAll")
    /\ DbUnchanged /\ SessUnchanged

\* const tasks = await Task.findAll(); res.json(tasks);
GetTasks(r) ==
    /\ At(r, "GET /api/tasks", "findAll")
    /\ \E ok \in BOOLEAN :
         LET q == reqs[r]
         IN reqs' = [reqs EXCEPT ![r] =
              IF ~ok THEN Fault(q, "Failed to fetch tasks")
                     ELSE Respond(q, 200, findAll(tasks))]
    /\ DbUnchanged /\ SessUnchanged

\* GET /api/tasks/:id
ReceiveGetTask(r) ==
    /\ \E id \in 1..MaxRows :
          Receive(r, "GET /api/tasks/:id", 0, id, NoBody, "findByPk")
    /\ DbUnchanged /\ SessUnchanged

\* const task = await Task.findByPk(req.params.id); if (!task) 404
GetTask(r) ==
    /\ At(r, "GET /api/tasks/:id", "findByPk")
    /\ \E ok \in BOOLEAN :
         LET q == reqs[r]
             task == findByPk(tasks, q.id)
         IN reqs' = [reqs EXCEPT ![r] =
              IF ~ok THEN Fault(q, "Failed to fetch task")
              ELSE IF task = Null THEN Respond(q, 404, Err("Task not found"))
                   ELSE Respond(q, 200, task)]
    /\ DbUnchanged /\ SessUnchanged

\* POST /api/tasks
ReceivePostTasks(r) ==
    /\ seq.Task + Pending({"POST /api/tasks"}) <= MaxRows
    /\ \E body \in TaskBodies :
          Receive(r, "POST /api/tasks", 0, 0, body, "create")
    /\ DbUnchanged /\ SessUnchanged

\* The values of Task.create({ title, description, completed, priority,
\* dueDate, projectId })
NewTaskRow(q, id) ==
    [id |-> id, title |-> q.body.title, description |-> q.body.description,
     completed |-> q.body.completed, priority |-> q.body.priority,
     dueDate |-> q.body.dueDate, projectId |-> q.body.projectId]

\* const newTask = await Task.create(...); res.status(201).json(newTask);
PostTasks(r) ==
    /\ At(r, "POST /api/tasks", "create")
    /\ \E ok \in BOOLEAN :
         LET q == reqs[r]
             newTask == NewTaskRow(q, seq.Task)
         IN IF ~ok
            THEN /\ reqs' = [reqs EXCEPT ![r] = Fault(q, "Failed to create task")]
                 /\ UNCHANGED <<tasks, seq>>
            ELSE /\ tasks' = create(tasks, newTask)
                 /\ seq' = [seq EXCEPT !.Task = @ + 1]
                 /\ reqs' = [reqs EXCEPT ![r] =
                      [Respond(q, 201, newTask) EXCEPT !.wrote = TRUE]]
    /\ UNCHANGED <<users, projects, uniqueEmail>> /\ SessUnchanged

\* PUT /api/tasks/:id
ReceivePutTask(r) ==
    /\ \E id \in 1..MaxRows, body \in TaskBodies :
          Receive(r, "PUT /api/tasks/:id", 0, id, body, "update")
    /\ DbUnchanged /\ SessUnchanged

\* The values of Task.update({ title, description, completed, priority,
\* dueDate, projectId }, ...) applied to a row.
UpdatedTaskRow(row, body) ==
    [row EXCEPT !.title = body.title, !.description = body.description,
                !.completed = body.completed, !.priority = body.priority,
                !.dueDate = body.dueDate, !.projectId = body.projectId]

\* const [updatedRowsCount] = await Task.update(...); 404 when it is 0
PutTaskUpdate(r) ==
    /\ At(r, "PUT /api/tasks/:id", "update")
    /\ \E ok \in BOOLEAN :
         LET q == reqs[r]
             old == findByPk(tasks, q.id)
             res == update(tasks, q.id,
                           IF old = Null THEN Null ELSE UpdatedTaskRow(old, q.body))
         IN IF ~ok
            THEN /\ reqs' = [reqs EXCEPT ![r] = Fault(q, "Failed to update task")]
                 /\ UNCHANGED tasks
            ELSE /\ tasks' = res[2]
                 /\ reqs' = [reqs EXCEPT ![r] =
                      IF PutNotFound(res[1])
                      THEN [Respond(q, 404, Err("Task not found")) EXCEPT !.count = res[1]]
                      ELSE [q EXCEPT !.count = res[1], !.pc = "findByPk",
                                     !.wrote = res[1] > 0]]
    /\ UNCHANGED <<users, projects, seq, uniqueEmail>> /\ SessUnchanged

\* const updatedTask = await Task.findByPk(req.params.id); res.json(updatedTask);
PutTaskFindByPk(r) ==
    /\ At(r, "PUT /api/tasks/:id", "findByPk")
    /\ \E ok \in BOOLEAN :
         LET q == reqs[r]
             updatedTask == findByPk(tasks, q.id)
         IN reqs' = [reqs EXCEPT ![r] =
              IF ~ok THEN Fault(q, "Failed to update task")
                     ELSE Respond(q, 200, updatedTask)]
    /\ DbUnchanged /\ SessUnchanged

\* DELETE /api/tasks/:id
ReceiveDeleteTask(r) ==
    /\ \E id \in 1..MaxRows :
          Receive(r, "DELETE /api/tasks/:id", 0, id, NoBody, "destroy")
    /\ DbUnchanged /\ SessUnchanged

\* const deletedRowsCount = await Task.destroy(...); 404 when it is 0
DeleteTask(r) ==
    /\ At(r, "DELETE /api/tasks/:id", "destroy")
    /\ \E ok \in BOOLEAN :
         LET q == reqs[r]
             res == destroy(tasks, q.id)
         IN IF ~ok
            THEN /\ reqs' = [reqs EXCEPT ![r] = Fault(q, "Failed to delete task")]
                 /\ UNCHANGED tasks
            ELSE /\ tasks' = res[2]
                 /\ reqs' = [reqs EXCEPT ![r] =
                      [(IF DeleteNotFound(res[1])
                        THEN Respond(q, 404, Err("Task not found"))
                        ELSE Respond(q, 200, [message |-> "Task deleted successfully"]))
                       EXCEPT !.count = res[1], !.wrote = res[1] > 0]]
    /\ UNCHANGED <<users, projects, seq, uniqueEmail>> /\ SessUnchanged

\* ------------------------------------------------------------ specifications
\* Registration, login, logout, session expiry and a route behind
\* requireAuth, from an empty database and an empty session store.
NextAuth ==
    \/ \E r \in Req : ReceiveRegister(r)
    \/ \E r \in Req : RegisterFindOne(r)
    \/ \E r \in Req : RegisterHash(r)
    \/ \E r \in Req : RegisterCreate(r)
    \/ \E r \in Req : ReceiveLogin(r)
    \/ \E r \in Req : LoginFindOne(r)
    \/ \E r \in Req : LoginCompare(r)
    \/ \E r \in Req : ReceiveLogout(r)
    \/ \E r \in Req : LogoutDestroy(r)
    \/ \E t \in Tokens : Expire(t)
    \/ \E r \in Req : ReceiveGetProjects(r)
    \/ \E r \in Req : GetProjects(r)
    \/ \E r \in Req : Finish(r)

SpecAuth == Init /\ [][NextAuth]_vars

\* The database as earlier requests left it when the process starts: two
\* users, one project of the first user, one task of that project.  The
\* session store is in memory and starts empty.
InitSeeded ==
    /\ users = <<[id |-> 1, username |-> "ann", email |-> "a@x.com", password |-> Hash("p")],
                 [id |-> 2, username |-> "bob", email |-> "b@x.com", password |-> Hash("q")]>>
    /\ projects = <<[id |-> 1, name |-> "n1", description |-> "d1", status |-> "open",
                     dueDate |-> "mon", userId |-> 1]>>
    /\ tasks = <<[id |-> 1, title |-> "t1", description |-> "d1", completed |-> FALSE,
                  priority |-> "low", dueDate |-> "mon", projectId |-> 1]>>
    /\ seq = [User |-> 3, Project |-> 2, Task |-> 2]
    /\ uniqueEmail \in BOOLEAN
    /\ store = [t \in {} |-> EmptySession]
    /\ issued = {}
    /\ reqs = [r \in Req |-> IdleReq]

\* Login, logout, session expiry and the two routes behind requireAuth.
NextGate ==
    \/ \E r \in Req : ReceiveLogin(r)
    \/ \E r \in Req : LoginFindOne(r)
    \/ \E r \in Req : LoginCompare(r)
    \/ \E r \in Req : ReceiveLogout(r)
    \/ \E r \in Req : LogoutDestroy(r)
    \/ \E t \in Tokens : Expire(t)
    \/ \E r \in Req : ReceiveGetProjects(r)
    \/ \E r \in Req : GetProjects(r)
    \/ \E r \in Req : ReceivePostProjects(r)
    \/ \E r \in Req : PostProjects(r)
    \/ \E r \in Req : Finish(r)

SpecGate == InitSeeded /\ [][NextGate]_vars

\* The routes that need no session: project by id, and every task route.
NextCrud ==
    \/ \E r \in Req : ReceiveGetProject(r)
    \/ \E r \in Req : GetProject(r)
    \/ \E r \in Req : ReceivePutProject(r)
    \/ \E r \in Req : PutProjectUpdate(r)
    \/ \E r \in Req : PutProjectFindByPk(r)
    \/ \E r \in Req : ReceiveDeleteProject(r)
    \/ \E r \in Req : DeleteProject(r)
    \/ \E r \in Req : ReceiveGetTasks(r)
    \/ \E r \in Req : GetTasks(r)
    \/ \E r \in Req : ReceiveGetTask(r)
    \/ \E r \in Req : GetTask(r)
    \/ \E r \in Req : ReceivePostTasks(r)
    \/ \E r \in Req : PostTasks(r)
    \/ \E r \in Req : ReceivePutTask(r)
    \/ \E r \in Req : PutTaskUpdate(r)
    \/ \E r \in Req : PutTaskFindByPk(r)
    \/ \E r \in Req : ReceiveDeleteTask(r)
    \/ \E r \in Req : DeleteTask(r)
    \/ \E r \in Req : Finish(r)

SpecCrud == InitSeeded /\ [][NextCrud]_vars

\* ------------------------------------------------------------ properties
Register == "POST /api/register"
Login == "POST /api/login"
Logout == "POST /api/logout"
Gated == {"GET /api/projects", "POST /api/projects"}
Puts == {"PUT /api/projects/:id", "PUT /api/tasks/:id"}
Deletes == {"DELETE /api/projects/:id", "DELETE /api/tasks/:id"}
OnProjects == {"PUT /api/projects/:id", "DELETE /api/projects/:id"}
\* The table a PUT or DELETE request works on, and its 404 body.
TableOf(kind) == IF kind \in OnProjects THEN projects ELSE tasks
NotFoundOf(kind) == Err(IF kind \in OnProjects THEN "Project not found" ELSE "Task not found")
\* Request r answers in this step.
Answers(r) == reqs[r].pc \notin {"idle", "done"} /\ reqs'[r].pc = "done"
\* Request r arrives in this step.
Arrives(r) == reqs[r].pc = "idle" /\ reqs'[r].pc # "idle"
\* The identity {id, username, email} of a user row.
IdentityOf(row) == [id |-> row.id, username |-> row.username, email |-> row.email]
UserIdentities == { IdentityOf(users[i]) : i \in 1..Len(users) }

\* ---- C1
EmailUnique == \A i, j \in 1..Len(users) : users[i].email = users[j].email => i = j
\* A register request that reaches User.create while its email has a row
\* answers 400 and adds no row (500 when the persistence call itself fails).
RegisterSeesRow ==
    \A r \in Req :
        ( /\ reqs[r].kind = Register /\ reqs[r].pc = "create" /\ Answers(r)
          /\ findOne(users, reqs[r].body.email) # Null
          /\ ~reqs'[r].fault )
        => reqs'[r].status = 400 /\ users' = users
\* C1: the user table never holds two rows with one email, and a register
\* request for an email that already has a row is answered 400 and adds no
\* row, whatever the interleaving of the register requests.
C1_EmailUniqueOnRegister == []EmailUnique /\ [][RegisterSeesRow]_vars

\* ---- C2
\* A finished login whose email had no user row.
UnknownEmailRun(r) ==
    /\ reqs[r].kind = Login /\ reqs[r].pc = "done" /\ ~reqs[r].fault
    /\ reqs[r].found = Null
\* A finished login whose email had a row and whose password did not match.
WrongPasswordRun(r) ==
    /\ reqs[r].kind = Login /\ reqs[r].pc = "done" /\ ~reqs[r].fault
    /\ reqs[r].found # Null
    /\ reqs[r].body.password \in Passwords
    /\ ~Compare(reqs[r].body.password, reqs[r].found.password)
LoginRefusal == [status |-> 401, json |-> [error |-> "Invalid email or password"]]
SameRefusal ==
    \A r \in Req :
        UnknownEmailRun(r) \/ WrongPasswordRun(r)
        => [status |-> reqs[r].status, json |-> reqs[r].json] = LoginRefusal
\* A login that answers 401 writes nothing to its session or to the store.
RefusalWritesNothing ==
    \A r \in Req :
        (reqs[r].kind = Login /\ Answers(r) /\ reqs'[r].status = 401)
        => /\ store' = store /\ issued' = issued
           /\ reqs'[r].session = reqs[r].session /\ reqs'[r].sid = reqs[r].sid
GateDecides ==
    \A r \in Req :
        (Arrives(r) /\ reqs'[r].kind \in Gated)
        => IF reqs'[r].sid \in DOMAIN store
           THEN /\ reqs'[r].pc \in {"findAll", "create"}
                /\ reqs'[r].user = [id |-> store[reqs'[r].sid].userId,
                                    username |-> store[reqs'[r].sid].username,
                                    email |-> store[reqs'[r].sid].userEmail]
                /\ reqs'[r].user \in UserIdentities
           ELSE /\ reqs'[r].pc = "done" /\ reqs'[r].status = 401
                /\ reqs'[r].json = [error |-> "Authentication required. Please log in."]
\* A session is in the store only by a login that answered 200.
StoredByLogin ==
    \A t \in DOMAIN store' :
        (t \notin DOMAIN store \/ store'[t] # store[t])
        => \E r \in Req : /\ reqs[r].kind = Login /\ Answers(r)
                          /\ reqs'[r].status = 200 /\ reqs'[r].sid = t
\* What a gated request ends with: 401 and no effect, or the handler's answer.
GatedOutcome ==
    \A r \in Req :
        (reqs[r].kind \in Gated /\ reqs[r].pc = "done")
        => IF reqs[r].user = NoUser
           THEN reqs[r].status = 401 /\ ~reqs[r].wrote /\ ~reqs[r].fault
           ELSE /\ reqs[r].user \in UserIdentities
                /\ reqs[r].fault \/ reqs[r].status \in {200, 201}
\* A project row appears only by a gated request that passed requireAuth.
NoRowWithoutGate ==
    projects' # projects
    => \E r \in Req : reqs[r].kind = "POST /api/projects" /\ Answers(r)
                      /\ reqs[r].user # NoUser /\ reqs'[r].status = 201
\* C3: GET and POST /api/projects with a session on which a login answered
\* 200 (not destroyed, not expired) pass requireAuth with the logged-in
\* user's identity and are answered 200 / 201 when persistence succeeds;
\* without such a session they are answered 401 and the handler does nothing.
C3_GatedAccessFollowsLogin ==
    []GatedOutcome /\ [][GateDecides /\ StoredByLogin /\ NoRowWithoutGate]_vars
C3_Witness ==
    \E r1, r2 \in Req :
        /\ reqs[r1].kind = "POST /api/projects" /\ reqs[r1].pc = "done"
        /\ reqs[r1].status = 201 /\ reqs[r1].sid \in DOMAIN store
        /\ reqs[r2].kind = "POST /api/projects" /\ reqs[r2].pc = "done"
        /\ reqs[r2].status = 401

\* ---- C4
\* C4: once POST /api/logout has answered 200 for a session id, the store
\* never again resolves that id to an identity, also when a login on the
\* same id was in flight during the logout.
C4_DestroyedStaysDestroyed ==
    \A r \in Req :
        (reqs[r].kind = Logout /\ reqs[r].pc = "done" /\ reqs[r].status = 200)
        => reqs[r].sid \notin DOMAIN store

\* ---- C5
\* The step that adds a project row is the create of a gated POST, and the
\* row's owner is the user id of that request's session.
OwnerFromSession ==
    projects' # projects
    => \E r \in Req :
          /\ reqs[r].kind = "POST /api/projects" /\ reqs[r].pc = "create"
          /\ projects' = Append(projects, reqs'[r].json)
          /\ reqs'[r].json.userId = reqs[r].session.userId
          /\ reqs'[r].json.userId # 0
\* C5: every project row created by POST /api/projects is owned by the user
\* of the session that passed requireAuth, whatever owner the body carries.
C5_OwnerFromSession == [][OwnerFromSession]_vars
C5_Witness ==
    \E r \in Req :
        /\ reqs[r].kind = "POST /api/projects" /\ reqs[r].status = 201
        /\ reqs[r].body.userId # 0 /\ reqs[r].body.userId # reqs[r].session.userId
        /\ \E i \in 1..Len(projects) : projects[i] = reqs[r].json

\* ---- C6
\* A PUT or DELETE whose persistence call finds no row with the id answers
\* 404 "<E> not found" and leaves both tables as they were.
AbsentIdChangesNothing ==
    \A r \in Req :
        ( /\ reqs[r].kind \in Puts \cup Deletes
          /\ reqs[r].pc \in {"update", "destroy"}
          /\ reqs'[r] # reqs[r]
          /\ reqs[r].id \notin Ids(TableOf(reqs[r].kind)) )
        => /\ projects' = projects /\ tasks' = tasks
           /\ \/ reqs'[r].fault
              \/ /\ reqs'[r].pc = "done" /\ reqs'[r].status = 404
                 /\ reqs'[r].json = NotFoundOf(reqs[r].kind)
\* C6: PUT and DELETE on an id without a row answer 404 {error: "<E> not
\* found"}; PUT creates no row, DELETE deletes none, no row changes.
C6_AbsentIdChangesNothing == [][AbsentIdChangesNothing]_vars
C6_Witness ==
    \E r1, r2 \in Req :
        /\ reqs[r1].kind \in Puts /\ reqs[r1].status = 404 /\ reqs[r1].count = 0
        /\ reqs[r2].kind \in Deletes /\ reqs[r2].status = 404 /\ reqs[r2].count = 0

\* ---- C7
\* The fields a PUT sends are the fields of the row it returns.
SentFields(kind, row, body) ==
    IF kind \in OnProjects THEN UpdatedProjectRow(row, body) = row
                           ELSE UpdatedTaskRow(row, body) = row
\* C7: a PUT answered 200 returns the row with the request's id, holding the
\* values the request sent, whatever other requests on that id run between
\* its update and its re-fetch.
C7_PutReturnsUpdated ==
    \A r \in Req :
        (reqs[r].kind \in Puts /\ reqs[r].pc = "done" /\ reqs[r].status = 200)
        => /\ reqs[r].json # Null
           /\ reqs[r].json.id = reqs[r].id
           /\ SentFields(reqs[r].kind, reqs[r].json, reqs[r].body)

\* ---- C8
\* Two DELETEs of one id are never both answered 200.
OneDelete200 ==
    \A r1, r2 \in Req :
        ( /\ r1 # r2 /\ reqs[r1].kind \in Deletes /\ reqs[r2].kind = reqs[r1].kind
          /\ reqs[r1].id = reqs[r2].id
          /\ reqs[r1].pc = "done" /\ reqs[r2].pc = "done" )
        => ~(reqs[r1].status = 200 /\ reqs[r2].status = 200)
\* A DELETE whose persistence call succeeds answers 200 exactly when the row
\* was there, and the row is gone afterwards.
DeleteAnswer ==
    \A r \in Req :
        (reqs[r].kind \in Deletes /\ Answers(r) /\ ~reqs'[r].fault)
        => /\ reqs'[r].status =
                (IF reqs[r].id \in Ids(TableOf(reqs[r].kind)) THEN 200 ELSE 404)
           /\ reqs[r].id \notin Ids(IF reqs[r].kind \in OnProjects THEN projects' ELSE tasks')
\* An id that was given out and has no row never has a row again.
DeletedStaysDeleted ==
    /\ \A id \in 1..(seq.Project - 1) : id \notin Ids(projects) => id \notin Ids(projects')
    /\ \A id \in 1..(seq.Task - 1) : id \notin Ids(tasks) => id \notin Ids(tasks')
\* C8: after a DELETE answered 200 the row is absent and every later DELETE
\* of that id is answered 404; of the DELETEs of one id at most one is
\* answered 200.
C8_DeleteOnce == []OneDelete200 /\ [][DeleteAnswer /\ DeletedStaysDeleted]_vars
C8_Witness ==
    \E r1, r2 \in Req :
        /\ reqs[r1].kind \in Deletes /\ reqs[r2].kind = reqs[r1].kind
        /\ reqs[r1].id = reqs[r2].id
        /\ reqs[r1].status = 200 /\ reqs[r2].status = 404

\* ---- C9
\* C9: a request answered 500 has had no effect on the stored users,
\* projects, tasks or sessions.
C9_FailureIsAtomic ==
    \A r \in Req : (reqs[r].pc = "done" /\ reqs[r].status = 500) => ~reqs[r].wrote

\* ---- C10
\* Every stored session carries the id, username and email of one user row.
SessionIsOneUser ==
    \A t \in DOMAIN store :
        [id |-> store[t].userId, username |-> store[t].username,
         email |-> store[t].userEmail] \in UserIdentities
\* A session gets or changes its identity only in the step of a login whose
\* email matched a user row and whose password verified against its hash.
IdentityByVerifiedLogin ==
    \A t \in DOMAIN store' :
        (t \notin DOMAIN store \/ store'[t] # store[t])
        => \E r \in Req :
              /\ reqs[r].kind = Login /\ reqs[r].pc = "compare" /\ reqs'[r].status = 200
              /\ reqs'[r].sid = t
              /\ \E i \in 1..Len(users) :
                    /\ users[i].email = reqs[r].body.email
                    /\ Compare(reqs[r].body.password, users[i].password)
                    /\ store'[t] = [userId |-> users[i].id, username |-> users[i].username,
                                    userEmail |-> users[i].email]
\* A step of any request but a login answering 200 or a logout leaves the
\* store as it is.
OthersLeaveSessions ==
    \A r \in Req :
        ( /\ reqs'[r] # reqs[r]
          /\ ~(reqs[r].kind = Login /\ reqs'[r].status = 200)
          /\ reqs[r].kind # Logout )
        => store' = store
\* C10: a session resolves to an identity only through a login whose email
\* matched a user row and whose password verified; its three fields are
\* those of that one user; failed logins, registers and project requests
\* leave it unchanged.
C10_OnlyVerifiedLogin ==
    []SessionIsOneUser /\ [][IdentityByVerifiedLogin /\ OthersLeaveSessions]_vars
C10_Witness ==
    \E r \in Req, t \in DOMAIN store :
        /\ reqs[r].kind = Login /\ reqs[r].pc = "done" /\ reqs[r].status = 401
        /\ reqs[r].sid = t /\ store[t] = reqs[r].session
        /\ store[t].userId # 0

====
